---- MODULE Spec2Model ----
(***************************************************************************)
(* Project 911 importer: reconciliation of the exchange's bill history     *)
(* with the append-only ledger file (cmd/importer/main.go,                 *)
(* internal/okx/client.go, service.LoadTransactions).                      *)
(*                                                                         *)
(* Representation                                                          *)
(*   time.Time        an integer number of milliseconds since the epoch    *)
(*   float64 amount   an integer number of 10^-9 units; the arithmetic of  *)
(*                    the model is exact                                   *)
(*   ledger text      RFC3339 text is an integer number of seconds, "%.8f" *)
(*                    text an integer number of 10^-8 units                *)
(*   string           a sequence of one-character strings where the code   *)
(*                    looks inside it (InstId, Note), a TLA+ string else   *)
(***************************************************************************)
EXTENDS Integers, Sequences, FiniteSets, Bags, TLC

VARIABLES
    remote,         \* the exchange's bill history, in the order it is served
    ledger,         \* the ledger file: [exists, records]
    pc,             \* position of the importer's main: idle, fetch, aggregate, write
    lastTimestamp,  \* main: the watermark read at the start of the run
    allBills,       \* FetchBills: the accumulator (main's rawBills once returned)
    afterCursor,    \* FetchBills: the pagination cursor
    retries,        \* FetchBills: rate-limit retries taken in this run
    transactions,   \* main: the result of aggregateAndMapBills
    prevRun         \* history: how the last run ended (exit), and of the last
                    \* run that reached the end of main, the bills it fetched
                    \* (done, bills) and the records the file held before its
                    \* write (rows); the bills FetchBills had accumulated when
                    \* it returned an error (dropped)

vars == <<remote, ledger, pc, lastTimestamp, allBills, afterCursor, retries,
          transactions, prevRun>>

----------------------------------------------------------------------------
(* Bounds of the model *)

MaxBills == 2       \* bills the exchange ever reports
MaxRows == 2        \* a run starts only while the ledger has at most this many rows
MaxRetries == 1     \* rate-limit answers per run
MaxAggBills == 2    \* length of the inputs of the aggregator taken alone
MaxEdited == 1      \* rows of a ledger written by hand
MaxHistory == 201   \* bills of the history in the fetch taken alone
MaxNoteBills == 3   \* length of the inputs of the aggregator's note fold

(* Constants of the program *)

PageLimit == 100                \* "?limit=100", len(result.Data) < 100
MsPerSecond == 1000             \* time.RFC3339 has no fraction of a second
NanoPerUnit == 10               \* "%.8f": 10^-8, in units of 10^-9
ZeroTime == -1                  \* time.Time{}: year 1, before every time since the epoch
EmptyCursor == 0                \* var afterCursor string

----------------------------------------------------------------------------
(* Strings the code looks inside *)

Str_Trade == <<"T", "r", "a", "d", "e", " ", "(">>
Str_Deposit == <<"D", "e", "p", "o", "s", "i", "t">>
Str_Withdrawal == <<"W", "i", "t", "h", "d", "r", "a", "w", "a", "l">>
Str_FundingFee == <<"F", "u", "n", "d", "i", "n", "g", " ", "F", "e", "e">>
Str_AutoImport == <<"A", "u", "t", "o", " ", "I", "m", "p", "o", "r", "t">>

\* strings.Contains(s, sub)
Contains(s, sub) ==
    \E i \in 0..(Len(s) - Len(sub)) : SubSeq(s, i + 1, i + Len(sub)) = sub

----------------------------------------------------------------------------
(* Conversions between values and ledger text *)

\* tx.Timestamp.Format(time.RFC3339): the text keeps whole seconds only
FormatRFC3339(ms) == ms \div MsPerSecond

\* time.Parse(time.RFC3339, row[0]) of a text that parses
ParseRFC3339(sec) == sec * MsPerSecond

\* fmt.Sprintf("%.8f", tx.Amount): rounds to the nearest 10^-8, a tie to even
FormatAmount(nano) ==
    LET r == nano % NanoPerUnit
        down == (nano - r) \div NanoPerUnit
    IN  IF 2 * r < NanoPerUnit THEN down
        ELSE IF 2 * r > NanoPerUnit THEN down + 1
        ELSE IF down % 2 = 0 THEN down ELSE down + 1

\* strconv.ParseFloat(row[2], 64) of a text that parses
ParseAmount(units) == units * NanoPerUnit

----------------------------------------------------------------------------
(* model.Transaction and the ledger file *)

TypeDeposit == "DEPOSIT"
TypeWithdrawal == "WITHDRAWAL"
TypePnL == "PNL"

Transaction(ts, type, amount, asset, note) ==
    [Timestamp |-> ts, Type |-> type, Amount |-> amount, Asset |-> asset,
     Note |-> note]

\* A record of the csv file: n fields; the timestamp and amount texts either
\* parse (tsOK, amtOK) to the value given, or do not.
\* The header row: "timestamp,type,amount,asset,note"
HeaderRecord ==
    [n |-> 5, tsOK |-> FALSE, timestamp |-> 0, type |-> "type",
     amtOK |-> FALSE, amount |-> 0, asset |-> "asset", note |-> <<"n">>]

\* The record appendNewRecords writes for one transaction
RecordOf(tx) ==
    [n |-> 5, tsOK |-> TRUE, timestamp |-> FormatRFC3339(tx.Timestamp),
     type |-> tx.Type, amtOK |-> TRUE, amount |-> FormatAmount(tx.Amount),
     asset |-> tx.Asset, note |-> tx.Note]

NoFile == [exists |-> FALSE, records |-> << >>]

\* service.LoadTransactions: [err, txs]. The first record is skipped as the
\* header, a record of fewer than 5 fields is skipped, a timestamp or amount
\* that does not parse ends the load with an error.
RECURSIVE LoadFrom(_, _, _)
LoadFrom(records, i, txs) ==
    IF i > Len(records) THEN [err |-> FALSE, txs |-> txs]
    ELSE LET row == records[i]
         IN  IF i = 1 \/ row.n < 5 THEN LoadFrom(records, i + 1, txs)
             ELSE IF ~row.tsOK \/ ~row.amtOK THEN [err |-> TRUE, txs |-> << >>]
             ELSE LoadFrom(records, i + 1,
                      Append(txs, Transaction(ParseRFC3339(row.timestamp),
                                              row.type, ParseAmount(row.amount),
                                              row.asset, row.note)))

LoadTransactions(file) ==
    IF ~file.exists THEN [err |-> TRUE, txs |-> << >>]
    ELSE LoadFrom(file.records, 1, << >>)

\* getLastRecordTimestamp: the zero time when the file is missing, when the
\* load fails and when it yields no transaction
getLastRecordTimestamp(file) ==
    IF ~file.exists THEN ZeroTime
    ELSE LET r == LoadTransactions(file)
         IN  IF r.err \/ Len(r.txs) = 0 THEN ZeroTime
             ELSE r.txs[Len(r.txs)].Timestamp

----------------------------------------------------------------------------
(* okx.Bill and the aggregator *)

\* A bill as the exchange reports it; Ts and BalChg stand for the numbers
\* their texts denote (strconv.ParseInt, strconv.ParseFloat).
Bill(id, ts, type, balChg, ccy, instId, ordId) ==
    [BillID |-> id, Ts |-> ts, Type |-> type, BalChg |-> balChg, Ccy |-> ccy,
     InstId |-> instId, OrdId |-> ordId]

determineType_Swapped(billType) ==
    CASE billType = "1" -> TypeWithdrawal
      [] billType = "2" -> TypeDeposit
      [] OTHER -> TypePnL

determineType(billType) ==
    CASE billType = "1" -> TypeDeposit
      [] billType = "2" -> TypeWithdrawal
      [] OTHER -> TypePnL

getNoteFromType(billType) ==
    CASE billType = "1" -> Str_Deposit
      [] billType = "2" -> Str_Withdrawal
      [] billType = "8" -> Str_FundingFee
      [] OTHER -> Str_AutoImport

\* First bill of an order: the aggregate record, its kind forced to PNL
NewOrder(bill) ==
    Transaction(bill.Ts, TypePnL, bill.BalChg, bill.Ccy,
                Str_Trade \o bill.InstId \o <<")">>)

MergeBill_LastTimestamp(existing, bill) ==
    [existing EXCEPT
        !.Amount = @ + bill.BalChg,
        !.Timestamp = bill.Ts,
        !.Note = IF ~Contains(@, bill.InstId) THEN @ \o <<" ">> \o bill.InstId
                 ELSE @]

MergeBill_AlwaysAppends(existing, bill) ==
    [existing EXCEPT
        !.Amount = @ + bill.BalChg,
        !.Timestamp = IF bill.Ts > @ THEN bill.Ts ELSE @,
        !.Note = @ \o <<" ">> \o bill.InstId]

\* A further bill of an order already in mergedMap
MergeBill(existing, bill) ==
    [existing EXCEPT
        !.Amount = @ + bill.BalChg,
        !.Timestamp = IF bill.Ts > @ THEN bill.Ts ELSE @,
        !.Note = IF ~Contains(@, bill.InstId) THEN @ \o <<" ">> \o bill.InstId
                 ELSE @]

\* A bill with no order id: one transaction of its own
Standalone(bill) ==
    Transaction(bill.Ts, determineType(bill.Type), bill.BalChg, bill.Ccy,
                IF bill.InstId # << >>
                THEN getNoteFromType(bill.Type) \o <<" ", "(">> \o bill.InstId
                     \o <<")">>
                ELSE getNoteFromType(bill.Type))

\* mergedMap after the first k bills of the loop
RECURSIVE mergedMap(_, _)
mergedMap(bills, k) ==
    IF k = 0 THEN [o \in {} |-> 0]
    ELSE LET m == mergedMap(bills, k - 1)
             bill == bills[k]
         IN  IF bill.OrdId = "" THEN m
             ELSE IF bill.OrdId \in DOMAIN m
                  THEN [m EXCEPT ![bill.OrdId] = MergeBill(@, bill)]
                  ELSE m @@ (bill.OrdId :> NewOrder(bill))

\* standaloneList after the first k bills of the loop
RECURSIVE standaloneList(_, _)
standaloneList(bills, k) ==
    IF k = 0 THEN << >>
    ELSE IF bills[k].OrdId = "" THEN Append(standaloneList(bills, k - 1),
                                            Standalone(bills[k]))
    ELSE standaloneList(bills, k - 1)

\* The orders in which "for _, t := range mergedMap" may visit a map
MapOrders(m) ==
    {f \in [1..Cardinality(DOMAIN m) -> DOMAIN m] :
        \A o \in DOMAIN m : \E i \in DOMAIN f : f[i] = o}

\* aggregateAndMapBills: the result lists it may return, the map's entries
\* in the order the iteration takes them, then the standalone list
aggregateAndMapBills(bills) ==
    LET m == mergedMap(bills, Len(bills))
    IN  {[i \in DOMAIN f |-> m[f[i]]] \o standaloneList(bills, Len(bills)) :
            f \in MapOrders(m)}

----------------------------------------------------------------------------
(* main: filter, and the write *)

FilterNew_NotBefore(txs, watermark) ==
    SelectSeq(txs, LAMBDA t : t.Amount # 0 /\ t.Timestamp >= watermark)

FilterNew_NoWatermark(txs, watermark) ==
    SelectSeq(txs, LAMBDA t : t.Amount # 0)

\* main, step 5: drops the zero amounts, then what is not after the watermark
FilterNew(txs, watermark) ==
    SelectSeq(txs, LAMBDA t : t.Amount # 0 /\ t.Timestamp > watermark)

Reordered(txs) ==
    {[i \in DOMAIN txs |-> txs[p[i]]] : p \in Permutations(DOMAIN txs)}

SortedOrders_Unsorted(txs) == Reordered(txs)

\* sort.Slice by Timestamp.Before: the slice ends in ascending order; the
\* sort is not stable, equal timestamps may end in any order
SortedOrders(txs) ==
    {s \in Reordered(txs) :
        \A i \in 1..(Len(s) - 1) : s[i].Timestamp <= s[i + 1].Timestamp}

Records(txs) == [i \in DOMAIN txs |-> RecordOf(txs[i])]

appendNewRecords_Truncating(file, newTxs) ==
    {[exists |-> TRUE, records |-> <<HeaderRecord>> \o Records(s)] :
        s \in SortedOrders(newTxs)}

\* appendNewRecords: the files it may leave. A missing file is created with
\* the header; an existing one is opened with O_APPEND.
appendNewRecords(file, newTxs) ==
    {[exists |-> TRUE,
      records |-> (IF file.exists THEN file.records ELSE <<HeaderRecord>>)
                  \o Records(s)] :
        s \in SortedOrders(newTxs)}

----------------------------------------------------------------------------
(* The exchange *)

\* What a new bill may be: on or between whole seconds; <<OrdId, Type,
\* BalChg>> with and without an order id, amounts of 10^-8 and of less than
\* half of 10^-8
BillTimes == {1000, 1500, 2000}
BillShapes ==
    {<<"", "1", 4>>, <<"", "2", -10>>, <<"A", "8", -10>>, <<"A", "8", 10>>}
InstA == <<"a">>

BillsOf(id, times, shapes) ==
    {Bill(id, ts, k[2], k[3], "USDT", InstA, k[1]) : ts \in times, k \in shapes}

NewBills(id) == BillsOf(id, BillTimes, BillShapes)

\* The answers to one request: no answer at all (transport failure), or an
\* HTTP status with a body that may hold "50011", may be JSON, and has a code
Responses ==
    [sent : BOOLEAN, status : {200, 429, 500}, has50011 : BOOLEAN,
     json : BOOLEAN, code : {"0", "50011", "51000"}]

\* FetchBills, steps 3 and 4: what the loop does with an answer
Outcome(resp) ==
    IF ~resp.sent THEN "fatal"
    ELSE IF resp.status # 200
         THEN IF resp.has50011 \/ resp.status = 429 THEN "retry" ELSE "fatal"
    ELSE IF ~resp.json THEN "fatal"
    ELSE IF resp.code # "0"
         THEN IF resp.code = "50011" THEN "retry" ELSE "fatal"
    ELSE "page"

\* The page the exchange serves for "?limit=100[&after=cursor]": the bills
\* that follow the one the cursor names, at most PageLimit of them
PageAfter(history, cursor) ==
    LET from == IF cursor = EmptyCursor THEN 1
                ELSE 1 + CHOOSE i \in 0..Len(history) :
                         (i = 0 /\ \A j \in DOMAIN history : history[j].BillID # cursor)
                         \/ (i > 0 /\ history[i].BillID = cursor)
        to == IF from + PageLimit - 1 < Len(history) THEN from + PageLimit - 1
              ELSE Len(history)
    IN  SubSeq(history, from, to)

----------------------------------------------------------------------------
(* Actions *)

RunReset ==
    /\ pc' = "idle"
    /\ lastTimestamp' = ZeroTime
    /\ allBills' = << >>
    /\ afterCursor' = EmptyCursor
    /\ retries' = 0
    /\ transactions' = << >>

\* The exchange reports one more bill, served before the older ones
AddBillOf(new) ==
    /\ pc = "idle"
    /\ \E b \in new : remote' = <<b>> \o remote
    /\ UNCHANGED <<ledger, pc, lastTimestamp, allBills, afterCursor, retries,
                   transactions, prevRun>>

AddBill ==
    /\ Len(remote) < MaxBills
    /\ AddBillOf(NewBills(Len(remote) + 1))

StartRun_CreatesFile ==
    /\ pc = "idle"
    /\ Len(ledger.records) <= MaxRows + 1
    /\ lastTimestamp' = getLastRecordTimestamp(ledger)
    /\ ledger' = IF ledger.exists THEN ledger
                 ELSE [exists |-> TRUE, records |-> <<HeaderRecord>>]
    /\ pc' = "fetch"
    /\ allBills' = << >>
    /\ afterCursor' = EmptyCursor
    /\ retries' = 0
    /\ UNCHANGED <<remote, transactions, prevRun>>

\* main, step 2: the watermark is read; FetchBills is entered
StartRun ==
    /\ pc = "idle"
    /\ Len(ledger.records) <= MaxRows + 1
    /\ lastTimestamp' = getLastRecordTimestamp(ledger)
    /\ pc' = "fetch"
    /\ allBills' = << >>
    /\ afterCursor' = EmptyCursor
    /\ retries' = 0
    /\ UNCHANGED <<remote, ledger, transactions, prevRun>>

\* FetchBills: a rate-limit answer; the same page is asked for again
FetchRateLimited_RewindsCursor ==
    /\ pc = "fetch"
    /\ retries < MaxRetries
    /\ {resp \in Responses : Outcome(resp) = "retry"} # {}
    /\ retries' = retries + 1
    /\ afterCursor' = EmptyCursor
    /\ UNCHANGED <<remote, ledger, pc, lastTimestamp, allBills, transactions,
                   prevRun>>

FetchRateLimited ==
    /\ pc = "fetch"
    /\ retries < MaxRetries
    /\ {resp \in Responses : Outcome(resp) = "retry"} # {}
    /\ retries' = retries + 1
    /\ UNCHANGED <<remote, ledger, pc, lastTimestamp, allBills, afterCursor,
                   transactions, prevRun>>

FetchFatal_ReturnsPartial ==
    /\ pc = "fetch"
    /\ {resp \in Responses : Outcome(resp) = "fatal"} # {}
    /\ pc' = "aggregate"
    /\ prevRun' = [prevRun EXCEPT !.exit = "fatal", !.dropped = 0]
    /\ UNCHANGED <<remote, ledger, lastTimestamp, allBills, afterCursor, retries,
                   transactions>>

\* FetchBills returns (nil, err); main ends in log.Fatalf
FetchFatal ==
    /\ pc = "fetch"
    /\ {resp \in Responses : Outcome(resp) = "fatal"} # {}
    /\ RunReset
    /\ prevRun' = [prevRun EXCEPT !.exit = "fatal", !.dropped = Len(allBills)]
    /\ UNCHANGED <<remote, ledger>>

NextCursor_FirstOfPage(data, cursor) ==
    IF Len(data) > 0 THEN data[1].BillID ELSE cursor

\* FetchBills, step 5: the cursor after a page, the id of its last bill
NextCursor(data, cursor) ==
    IF Len(data) > 0 THEN data[Len(data)].BillID ELSE cursor

Continues_UntilEmpty(data) == Len(data) > 0

Continues_Always(data) == TRUE

\* FetchBills, step 5: the loop goes on after a page that is neither empty
\* ("else break") nor short ("if len(result.Data) < 100 break")
Continues(data) == Len(data) > 0 /\ ~(Len(data) < PageLimit)

\* FetchBills, step 5: a page is accumulated and the cursor moved; an empty
\* or short page ends the loop
FetchPage ==
    /\ pc = "fetch"
    /\ {resp \in Responses : Outcome(resp) = "page"} # {}
    /\ LET data == PageAfter(remote, afterCursor)
       IN  /\ allBills' = allBills \o data
           /\ afterCursor' = NextCursor(data, afterCursor)
           /\ pc' = IF Continues(data) THEN "fetch" ELSE "aggregate"
    /\ UNCHANGED <<remote, ledger, lastTimestamp, retries, transactions, prevRun>>

\* main, step 4
Aggregate ==
    /\ pc = "aggregate"
    /\ transactions' \in aggregateAndMapBills(allBills)
    /\ pc' = "write"
    /\ UNCHANGED <<remote, ledger, lastTimestamp, allBills, afterCursor, retries,
                   prevRun>>

\* main, steps 5 and 6: the new transactions are appended, if there are any
Commit ==
    /\ pc = "write"
    /\ LET newTransactions == FilterNew(transactions, lastTimestamp)
       IN  IF Len(newTransactions) > 0
           THEN ledger' \in appendNewRecords(ledger, newTransactions)
           ELSE ledger' = ledger
    /\ prevRun' = [exit |-> "ok", done |-> TRUE, bills |-> allBills,
                   rows |-> Len(ledger.records), dropped |-> 0]
    /\ RunReset
    /\ UNCHANGED remote

\* appendNewRecords: os.OpenFile fails, log.Fatalf
CommitOpenFails ==
    /\ pc = "write"
    /\ Len(FilterNew(transactions, lastTimestamp)) > 0
    /\ RunReset
    /\ prevRun' = [prevRun EXCEPT !.exit = "fatal", !.dropped = 0]
    /\ UNCHANGED <<remote, ledger>>

Next ==
    \/ AddBill
    \/ StartRun
    \/ FetchRateLimited
    \/ FetchFatal
    \/ FetchPage
    \/ Aggregate
    \/ Commit
    \/ CommitOpenFails

NoRun ==
    [exit |-> "none", done |-> FALSE, bills |-> << >>, rows |-> 0, dropped |-> 0]

InitWith(file, bills, at) ==
    /\ remote = << >>
    /\ ledger = file
    /\ pc = at
    /\ lastTimestamp = ZeroTime
    /\ allBills = bills
    /\ afterCursor = EmptyCursor
    /\ retries = 0
    /\ transactions = << >>
    /\ prevRun = NoRun

\* The importer is run again and again on a ledger that does not exist yet,
\* or holds the header only
Init ==
    \E file \in {NoFile, [exists |-> TRUE, records |-> <<HeaderRecord>>]} :
        InitWith(file, << >>, "idle")

Spec == Init /\ [][Next]_vars

----------------------------------------------------------------------------
(* The importer on a ledger written by hand *)

\* A row written by hand: one that parses, one whose timestamp does not, one
\* whose amount does not, one of four fields
EditedRows ==
    {[n |-> 5, tsOK |-> TRUE, timestamp |-> sec, type |-> TypeDeposit,
      amtOK |-> TRUE, amount |-> 1, asset |-> "USDT", note |-> <<"s">>] :
        sec \in {1, 2}}
    \cup
    {[n |-> 5, tsOK |-> FALSE, timestamp |-> 1, type |-> TypeDeposit,
      amtOK |-> TRUE, amount |-> 1, asset |-> "USDT", note |-> <<"s">>],
     [n |-> 5, tsOK |-> TRUE, timestamp |-> 1, type |-> TypeDeposit,
      amtOK |-> FALSE, amount |-> 0, asset |-> "USDT", note |-> <<"s">>],
     [n |-> 4, tsOK |-> TRUE, timestamp |-> 1, type |-> TypeDeposit,
      amtOK |-> TRUE, amount |-> 1, asset |-> "USDT", note |-> << >>]}

SeqsUpTo(S, n) == UNION {[1..k -> S] : k \in 0..n}

\* The header and up to MaxEdited rows; or a file of no bytes
EditedLedgers ==
    {[exists |-> TRUE, records |-> <<HeaderRecord>> \o rows] :
        rows \in SeqsUpTo(EditedRows, MaxEdited)}
    \cup {[exists |-> TRUE, records |-> << >>]}

EditedBillTimes == {1000, 2000}
EditedBillShapes == {<<"", "1", 0>>, <<"", "1", 10>>}

AddBillEdited ==
    /\ Len(remote) < MaxBills
    /\ AddBillOf(BillsOf(Len(remote) + 1, EditedBillTimes, EditedBillShapes))

NextEdited ==
    \/ AddBillEdited
    \/ StartRun
    \/ FetchRateLimited
    \/ FetchFatal
    \/ FetchPage
    \/ Aggregate
    \/ Commit
    \/ CommitOpenFails

InitEdited == \E file \in EditedLedgers : InitWith(file, << >>, "idle")

SpecEdited == InitEdited /\ [][NextEdited]_vars

----------------------------------------------------------------------------
(* The aggregator taken alone *)

AggTimes == {1000, 2000}
AggShapes ==
    {<<o, t, a>> : o \in {"", "A", "B"}, t \in {"1", "2", "8"}, a \in {-10, 4}}

\* The bill lists of up to MaxAggBills bills, with their ids
AggInputs ==
    {[i \in DOMAIN s |-> [s[i] EXCEPT !.BillID = i]] :
        s \in SeqsUpTo(BillsOf(0, AggTimes, AggShapes), MaxAggBills)}

InitAgg == \E bills \in AggInputs : InitWith(NoFile, bills, "aggregate")

NextAgg == Aggregate

SpecAgg == InitAgg /\ [][NextAgg]_vars

----------------------------------------------------------------------------
(* FetchBills taken alone, on histories of more than two pages *)

\* A history of n bills, told apart by their ids
HistoryOf(n) == [i \in 1..n |-> Bill(i, 1000, "8", 10, "USDT", InstA, "")]

InitFetch ==
    /\ \E n \in 0..MaxHistory : remote = HistoryOf(n)
    /\ ledger = NoFile
    /\ pc = "fetch"
    /\ lastTimestamp = ZeroTime
    /\ allBills = << >>
    /\ afterCursor = EmptyCursor
    /\ retries = 0
    /\ transactions = << >>
    /\ prevRun = NoRun

NextFetch ==
    \/ FetchRateLimited
    \/ FetchFatal
    \/ FetchPage

SpecFetch == InitFetch /\ [][NextFetch]_vars

\* The exchange does not answer with rate limits and errors for ever: a
\* request is in the end answered with a page
SpecFetchLive == SpecFetch /\ WF_vars(FetchPage)

----------------------------------------------------------------------------
(* The aggregator's notes and assets, on bills of several instruments *)

InstX == <<"X">>
InstXY == <<"X", "Y">>
InstY == <<"Y">>

\* Bills of the orders "A" and "B" and bills of no order, of instruments one
\* of which is a substring of another, and of two currencies
NoteBills ==
    { Bill(0, 1000, "2", -10, "USDT", InstX, "A"),
      Bill(0, 2000, "2", 4, "USDT", InstX, "A"),
      Bill(0, 1000, "2", -10, "USDT", InstXY, "A"),
      Bill(0, 2000, "2", 4, "USDT", InstXY, "A"),
      Bill(0, 1000, "2", 4, "BTC", InstY, "A"),
      Bill(0, 1000, "2", -10, "USDT", << >>, "A"),
      Bill(0, 1000, "2", 4, "USDT", InstX, "B"),
      Bill(0, 1000, "8", 4, "USDT", InstX, "") }

NoteInputs ==
    {[i \in DOMAIN s |-> [s[i] EXCEPT !.BillID = i]] :
        s \in SeqsUpTo(NoteBills, MaxNoteBills)}

InitNote == \E bills \in NoteInputs : InitWith(NoFile, bills, "aggregate")

NextNote == Aggregate

SpecNote == InitNote /\ [][NextNote]_vars

----------------------------------------------------------------------------
(* Vocabulary of the properties *)

IsPrefix(s, t) == Len(s) <= Len(t) /\ SubSeq(t, 1, Len(s)) = s

\* The rows of the file: its records after the header
DataRows(file) == SubSeq(file.records, 2, Len(file.records))

\* The rows a step appended to the file; a file it created begins with the
\* header
FirstAppended == IF ledger.exists THEN Len(ledger.records) + 1 ELSE 2

Appended == SubSeq(ledger'.records, FirstAppended, Len(ledger'.records))

\* A step in which main reaches its end (the write, or "all up to date")
RunCompletes == pc = "write" /\ pc' = "idle" /\ prevRun'.exit = "ok"

BagOfSeq(s) == [x \in {s[i] : i \in DOMAIN s} |-> Cardinality({i \in DOMAIN s : s[i] = x})]

\* The watermark of a file, read off its records: the time of its last row of
\* five fields; the zero time when it has none, and when a row does not parse
WatermarkOf(file) ==
    LET rows == SelectSeq(DataRows(file), LAMBDA r : r.n >= 5)
    IN  IF rows = << >> \/ \E i \in DOMAIN rows : ~rows[i].tsOK \/ ~rows[i].amtOK
        THEN ZeroTime
        ELSE rows[Len(rows)].timestamp * 1000

----------------------------------------------------------------------------
(* Reconciliation: C1 - C8 *)

\* C1: a run against the same remote data as the run completed before it
\* appends no row: the ledger after the second run is the ledger after the
\* first.
C1_SecondRunAppendsNothing ==
    [][(RunCompletes /\ prevRun.done /\ prevRun.bills = allBills)
          => ledger' = ledger]_vars

\* C2, as claimed: the rows a completed run appends are exactly the aggregated
\* transactions later than the watermark T of the ledger.
C2_AppendsAllLater ==
    [][RunCompletes =>
          BagOfSeq(Appended)
          = BagOfSeq(Records(SelectSeq(transactions,
                LAMBDA t : t.Timestamp > WatermarkOf(ledger))))]_vars

\* C2, amended: the rows a completed run appends are exactly the aggregated
\* transactions of non-zero amount that are later than the watermark T, where
\* T is the time of the last row read from the ledger, and the zero time when
\* the file is missing, holds no row, or holds a row that does not parse.
C2_AppendsNonZeroLater ==
    [][RunCompletes =>
          BagOfSeq(Appended)
          = BagOfSeq(Records(SelectSeq(transactions,
                LAMBDA t : t.Amount # 0 /\ t.Timestamp > WatermarkOf(ledger))))]_vars

\* C2, reached: a run has completed on a ledger whose rows parse, with a bill
\* of non-zero amount at the watermark left out and a later one written.
C2_Witness ==
    /\ pc = "idle"
    /\ prevRun.exit = "ok"
    /\ prevRun.rows >= 2
    /\ Len(ledger.records) > prevRun.rows
    /\ ~LoadTransactions(ledger).err
    /\ \E i \in DOMAIN prevRun.bills :
          /\ prevRun.bills[i].BalChg # 0
          /\ prevRun.bills[i].Ts = ledger.records[prevRun.rows].timestamp * 1000

\* C3: no row of the ledger has an amount of exactly 0.
C3_NoZeroAmountRow ==
    \A i \in DOMAIN DataRows(ledger) : DataRows(ledger)[i].amount # 0

\* C4: the rows of the ledger are non-decreasing by timestamp.
C4_RowsNonDecreasing ==
    \A i \in 1..(Len(DataRows(ledger)) - 1) :
        DataRows(ledger)[i].timestamp <= DataRows(ledger)[i + 1].timestamp

\* C4, reached: a run has appended a later row to a ledger that held a row.
C4_Witness ==
    /\ pc = "idle"
    /\ prevRun.exit = "ok"
    /\ prevRun.rows >= 2
    /\ Len(ledger.records) > prevRun.rows
    /\ ledger.records[prevRun.rows].timestamp
       < ledger.records[prevRun.rows + 1].timestamp

\* C5, as claimed: every row's timestamp is strictly greater than that of the
\* row before it.
C5_RowsStrictlyAscending ==
    \A i \in 1..(Len(DataRows(ledger)) - 1) :
        DataRows(ledger)[i].timestamp < DataRows(ledger)[i + 1].timestamp

\* C5, amended: every row a run appends is written from a transaction strictly
\* later than every row the ledger held before the run, and its timestamp as
\* written is not less than that of the row before it (it may be equal).
C5_AppendedLaterThanExisting ==
    [][\A i \in FirstAppended..Len(ledger'.records) :
          /\ i > 2 => ledger'.records[i - 1].timestamp <= ledger'.records[i].timestamp
          /\ \E k \in DOMAIN transactions :
                /\ RecordOf(transactions[k]) = ledger'.records[i]
                /\ \A j \in DOMAIN DataRows(ledger) :
                      transactions[k].Timestamp > DataRows(ledger)[j].timestamp * 1000
      ]_vars

\* C5, reached: a run has appended, to a ledger that held a row, a row of the
\* same timestamp.
C5_Witness ==
    /\ pc = "idle"
    /\ prevRun.exit = "ok"
    /\ prevRun.rows >= 2
    /\ Len(ledger.records) > prevRun.rows
    /\ ledger.records[prevRun.rows].timestamp
       = ledger.records[prevRun.rows + 1].timestamp

\* C6: every step leaves the records the file held as a prefix of the records
\* it holds, never removes the file, and a run that finds no new transaction
\* leaves the file as it was.
C6_AppendOnly ==
    [][/\ IsPrefix(ledger.records, ledger'.records)
       /\ ledger.exists => ledger'.exists
       /\ (RunCompletes /\ \A k \in DOMAIN transactions :
                              \/ transactions[k].Amount = 0
                              \/ transactions[k].Timestamp <= WatermarkOf(ledger))
            => ledger' = ledger
      ]_vars

\* C6, reached: a run has appended rows to a ledger that held two.
C6_Witness ==
    /\ pc = "idle"
    /\ prevRun.exit = "ok"
    /\ prevRun.rows >= 3
    /\ Len(ledger.records) > prevRun.rows

\* C7: the ledger changes only in the step that ends main, after the fetch, the
\* aggregation and the filter; a run that ends in a fatal condition, and every
\* step before the write, leaves it as it was.
C7_NoPartialCommit ==
    [][/\ ledger' # ledger => RunCompletes
       /\ prevRun'.exit = "fatal" => ledger' = ledger
      ]_vars

\* C7, reached: a run has ended in a fatal condition, on a ledger with rows
\* and with bills the ledger's last completed run had not seen.
C7_Witness ==
    /\ pc = "idle"
    /\ prevRun.exit = "fatal"
    /\ Len(ledger.records) >= 2
    /\ Len(remote) > Len(prevRun.bills)

\* C8: a run on a ledger with a row that does not parse appends nothing.
C8_ParseErrorAborts ==
    [][(ledger.exists /\ LoadTransactions(ledger).err) => ledger' = ledger]_vars

----------------------------------------------------------------------------
(* The aggregator: C9, C10 *)

\* The order ids of a bill list, and the bills of one order
OrderIds(bills) == {bills[i].OrdId : i \in DOMAIN bills} \ {""}

Fragments(bills, o) == {i \in DOMAIN bills : bills[i].OrdId = o}

StandaloneBills(bills) == SelectSeq(bills, LAMBDA b : b.OrdId = "")

RECURSIVE SumOfAmounts(_, _)
SumOfAmounts(bills, I) ==
    IF I = {} THEN 0
    ELSE LET i == CHOOSE j \in I : TRUE
         IN  bills[i].BalChg + SumOfAmounts(bills, I \ {i})

LatestTime(bills, I) ==
    CHOOSE t \in {bills[i].Ts : i \in I} : \A i \in I : bills[i].Ts <= t

\* C9: the aggregator returns one transaction for each order id and one for
\* each bill without an order id; the transaction of an order id has the sum of
\* the amounts of the order's bills and the latest of their timestamps.
C9_FoldSumMax ==
    pc = "write" =>
        LET ids == OrderIds(allBills)
            n == Cardinality(ids)
        IN  /\ Len(transactions) = n + Len(StandaloneBills(allBills))
            /\ \E f \in [ids -> 1..n] :
                  /\ \A o, q \in ids : f[o] = f[q] => o = q
                  /\ \A o \in ids :
                        /\ transactions[f[o]].Amount
                           = SumOfAmounts(allBills, Fragments(allBills, o))
                        /\ transactions[f[o]].Timestamp
                           = LatestTime(allBills, Fragments(allBills, o))

\* C9, reached: two bills of one order have been folded, the later one first.
C9_Witness ==
    /\ pc = "write"
    /\ \E i, j \in DOMAIN allBills :
          /\ i < j
          /\ allBills[i].OrdId # ""
          /\ allBills[i].OrdId = allBills[j].OrdId
          /\ allBills[i].Ts > allBills[j].Ts
          /\ allBills[i].BalChg # allBills[j].BalChg

\* C10: the transactions of the order ids are all of kind PNL, whatever the
\* type codes of their bills; a bill without an order id yields one transaction
\* of its own, of kind DEPOSIT for code "1", WITHDRAWAL for code "2" and PNL
\* for any other code.
C10_Kinds ==
    pc = "write" =>
        LET n == Cardinality(OrderIds(allBills))
            solo == StandaloneBills(allBills)
        IN  /\ Len(transactions) = n + Len(solo)
            /\ \A i \in 1..n : transactions[i].Type = "PNL"
            /\ \A k \in DOMAIN solo :
                  /\ transactions[n + k].Timestamp = solo[k].Ts
                  /\ transactions[n + k].Amount = solo[k].BalChg
                  /\ transactions[n + k].Type
                     = CASE solo[k].Type = "1" -> "DEPOSIT"
                         [] solo[k].Type = "2" -> "WITHDRAWAL"
                         [] OTHER -> "PNL"

\* C10, reached: a bill of type "1" with an order id and a bill of type "2"
\* without one have been aggregated.
C10_Witness ==
    /\ pc = "write"
    /\ \E i, j \in DOMAIN allBills :
          /\ allBills[i].OrdId # "" /\ allBills[i].Type = "1"
          /\ allBills[j].OrdId = "" /\ allBills[j].Type = "2"

----------------------------------------------------------------------------
(* The notes of the order groups: C11 *)

\* The transaction the aggregator holds for the order o once the bills are
\* folded
GroupOf(bills, o) == mergedMap(bills, Len(bills))[o]

\* The instruments of the bills of the order o
InstIdsOf(bills, o) == {bills[i].InstId : i \in Fragments(bills, o)}

\* The places of a note where inst stands as an entry of its own: after the
\* opening bracket or a space, and before the closing bracket, a space or the
\* end of the note
EntriesOf(note, inst) ==
    {i \in 2..(Len(note) + 1) :
        /\ i + Len(inst) - 1 <= Len(note)
        /\ SubSeq(note, i, i + Len(inst) - 1) = inst
        /\ note[i - 1] \in {"(", " "}
        /\ \/ i + Len(inst) = Len(note) + 1
           \/ note[i + Len(inst)] \in {")", " "}}

\* C11: however many bills of one order carry an instrument, the order's note
\* never has that instrument as an entry twice; when all the bills of the order
\* carry the same instrument, the note has it exactly once.
C11_NoteIdempotent ==
    pc = "write" =>
        \A o \in OrderIds(allBills) :
            LET note == GroupOf(allBills, o).Note
                insts == InstIdsOf(allBills, o)
            IN  /\ \E i \in DOMAIN transactions : transactions[i].Note = note
                /\ \A inst \in insts :
                      Cardinality(EntriesOf(note, inst)) <= 1
                /\ Cardinality(insts) = 1 =>
                      \A inst \in insts :
                          Cardinality(EntriesOf(note, inst)) = 1

\* C11, reached: three bills of one order, all of the same instrument, have
\* been folded into one transaction.
C11_Witness ==
    /\ pc = "write"
    /\ Len(allBills) = 3
    /\ Len(transactions) = 1
    /\ \A i \in DOMAIN allBills :
          allBills[i].OrdId = "A" /\ allBills[i].InstId = InstX
    /\ transactions[1].Note = Str_Trade \o InstX \o <<")">>

----------------------------------------------------------------------------
(* FetchBills: C12 to C15 *)

\* C12: what FetchBills has accumulated is at every moment the beginning of
\* the history, each bill once and in the order served; when it returns
\* without an error it returns the whole history, rate limits or not.
C12_ReturnsWholeHistory ==
    /\ IsPrefix(allBills, remote)
    /\ pc = "aggregate" => allBills = remote

\* C12, reached: a history of three pages has been returned whole after a
\* request was answered with a rate limit.
C12_Witness ==
    /\ pc = "aggregate"
    /\ allBills = remote
    /\ Len(remote) > 2 * PageLimit
    /\ retries > 0

\* The cursor a request carries is the empty one if nothing has been
\* accumulated and the id of the last accumulated bill otherwise
CursorFollowsAccumulator ==
    /\ afterCursor = EmptyCursor <=> allBills = << >>
    /\ allBills # << >> => afterCursor = allBills[Len(allBills)].BillID

\* The answers that are a rate limit: status 429, a body holding "50011" under
\* a status other than 200, the business code "50011"
IsRateLimit(resp) ==
    /\ resp.sent
    /\ \/ resp.status = 429
       \/ resp.status # 200 /\ resp.has50011
       \/ resp.status = 200 /\ resp.json /\ resp.code = "50011"

\* A step in which a request is answered with a rate limit
RateLimitStep == pc = "fetch" /\ retries' = retries + 1

\* C13: each request carries the empty cursor iff nothing has been accumulated,
\* and the id of the last accumulated bill otherwise; an answer that is a rate
\* limit changes neither the cursor nor the accumulator, and the next request
\* asks for the same page.
C13_CursorAndRetry ==
    /\ \A resp \in Responses : IsRateLimit(resp) <=> Outcome(resp) = "retry"
    /\ [][/\ pc = "fetch" => CursorFollowsAccumulator
          /\ pc' = "fetch" => CursorFollowsAccumulator'
          /\ RateLimitStep =>
                 /\ pc' = "fetch"
                 /\ afterCursor' = afterCursor
                 /\ allBills' = allBills
                 /\ PageAfter(remote', afterCursor')
                    = PageAfter(remote, afterCursor)
         ]_vars

\* C13, reached: the request for the second page was answered with a rate
\* limit and is to be sent again.
C13_Witness ==
    /\ pc = "fetch"
    /\ retries > 0
    /\ Len(allBills) = PageLimit
    /\ afterCursor = allBills[PageLimit].BillID
    /\ PageAfter(remote, afterCursor) # << >>

\* A step in which a request is answered with a page
PageStep == pc = "fetch" /\ pc' \in {"fetch", "aggregate"} /\ retries' = retries

\* C14: a page of exactly 100 bills is followed by another request; a page of
\* fewer than 100 bills, or of none, ends the fetch, which returns what it has
\* accumulated; when the first page is empty the result is empty and there is
\* no error.
C14_StopsOnShortPage ==
    [][PageStep =>
          LET data == PageAfter(remote, afterCursor)
          IN  /\ allBills' = allBills \o data
              /\ Len(data) = PageLimit => pc' = "fetch"
              /\ Len(data) < PageLimit => pc' = "aggregate"
              /\ (allBills = << >> /\ data = << >>) =>
                    /\ pc' = "aggregate"
                    /\ allBills' = << >>
                    /\ prevRun'.exit # "fatal"
      ]_vars

\* C14, reached: after two pages of exactly 100 bills a third request was made,
\* and its empty page ended the fetch.
C14_Witness ==
    /\ pc = "aggregate"
    /\ Len(remote) = 2 * PageLimit
    /\ allBills = remote
    /\ PageAfter(remote, afterCursor) = << >>

\* The answers that are a failure: no answer, a status other than 200, a body
\* that is not JSON, a business code other than "0"
IsFailure(resp) ==
    \/ ~resp.sent
    \/ resp.status # 200
    \/ ~resp.json
    \/ resp.code # "0"

\* C15: a transport failure, a body that does not parse and every failure that
\* is not a rate limit are fatal; on a fatal answer FetchBills makes no further
\* request and returns an error and no bills, whatever it had accumulated.
C15_FatalDiscards ==
    /\ \A resp \in Responses :
          (IsFailure(resp) /\ ~IsRateLimit(resp)) => Outcome(resp) = "fatal"
    /\ [][(pc = "fetch" /\ prevRun'.exit = "fatal") =>
              /\ pc' = "idle"
              /\ allBills' = << >>
      ]_vars

\* C15, reached: two pages had been accumulated when the third request failed;
\* the fetch has ended and nothing is returned.
C15_Witness ==
    /\ prevRun.exit = "fatal"
    /\ prevRun.dropped = 2 * PageLimit
    /\ pc = "idle"
    /\ allBills = << >>

----------------------------------------------------------------------------
(* FetchBills: C16 *)

\* C16: when the history is finite and no request is answered with rate limits
\* for ever, FetchBills returns, with a result or with an error; an answer that
\* is a rate limit never makes it return, neither a result nor an error.
C16_FetchTerminates ==
    /\ [](pc = "fetch" => <>(pc \in {"aggregate", "idle"}))
    /\ [][RateLimitStep => (pc' = "fetch" /\ prevRun' = prevRun)]_vars

\* C16, reached: FetchBills has returned a history of more than one page
\* after as many rate limits as the exchange gives.
C16_Witness ==
    /\ pc = "aggregate"
    /\ retries = MaxRetries
    /\ Len(allBills) > PageLimit
    /\ prevRun.exit = "none"

----------------------------------------------------------------------------
(* The notes of the order groups: C17 *)

\* C17: the note of an order holds the instrument of each of the order's bills
\* as an entry of its own, also when the instrument is a substring of another
\* one the note already holds.
C17_NoteListsEveryInstrument ==
    pc = "write" =>
        \A o \in OrderIds(allBills) :
            \A i \in Fragments(allBills, o) :
                allBills[i].InstId # << >> =>
                    EntriesOf(GroupOf(allBills, o).Note, allBills[i].InstId) # {}

----------------------------------------------------------------------------
(* The aggregator and the order of its input: C18 *)

\* The bill lists that hold the same bills as the given one, in any order
InputOrders(bills) ==
    {[i \in DOMAIN bills |-> bills[f[i]]] :
        f \in {g \in [DOMAIN bills -> DOMAIN bills] :
                  \A i, j \in DOMAIN bills : g[i] = g[j] => i = j}}

SetOfSeq(s) == {s[i] : i \in DOMAIN s}

\* C18: in whatever order the same bills are given to the aggregator, the
\* transactions it returns are the same set, in timestamp, kind, amount, asset
\* and note.
C18_OrderIndependent ==
    pc = "write" =>
        \A bills \in InputOrders(allBills) :
            \A result \in aggregateAndMapBills(bills) :
                SetOfSeq(result) = SetOfSeq(transactions)

----------------------------------------------------------------------------
(* Successive runs over a growing history: C19 *)

\* C19: over the runs of a history that only grows, each bill's amount is in the
\* ledger at most once: the rows can be told apart by the bills they account
\* for, each bill accounted for by at most one row and each row holding the sum
\* of its bills.  Stated for histories whose times are whole seconds, where no
\* row is appended again for the lost milliseconds of its timestamp.
C19_CountedAtMostOnce ==
    (\A i \in DOMAIN remote : remote[i].Ts % MsPerSecond = 0) =>
        LET rows == DataRows(ledger)
        IN  \E f \in [DOMAIN remote -> 0..Len(rows)] :
                \A k \in DOMAIN rows :
                    LET I == {i \in DOMAIN remote : f[i] = k}
                    IN  /\ I # {}
                        /\ rows[k].amount = FormatAmount(SumOfAmounts(remote, I))

====
